---------------------------- MODULE Spec2Model ----------------------------
(* A model of xshot_py/core/text_renderer.py (class TextRenderer): font     *)
(* resolution, anchor placement, bounds clamping, effect compositing and    *)
(* the render entry points.  Python strings that the code searches with     *)
(* `in` or startswith are sequences of one-character strings, so that the   *)
(* substring tests are computed and not assumed.                            *)
EXTENDS Integers, Sequences, FiniteSets, TLC

VARIABLES pc, args, ret, fs, idx, config, img, bbox, drawn, fontCalls

vars == <<pc, args, ret, fs, idx, config, img, bbox, drawn, fontCalls>>

-----------------------------------------------------------------------------
(* Bounds of the model.                                                      *)

MaxImg == 4
MaxText == 5
MaxPad == 2
Margin == 1
MaxOutline == 2
MaxBorder == 2

-----------------------------------------------------------------------------
(* Python helpers.                                                           *)

\* sub in s  (Python substring test on str)
Contains(sub, s) ==
    \E i \in 0..(Len(s) - Len(sub)) : SubSeq(s, i + 1, i + Len(sub)) = sub

\* d.get(key, default) on a dict modelled as a function
Get(d, key, default) == IF key \in DOMAIN d THEN d[key] ELSE default

\* max(a, b)
Max(a, b) == IF a >= b THEN a ELSE b

\* a missing dict, list or record
Empty == <<>>

-----------------------------------------------------------------------------
(* Anchor strings.                                                           *)

S_top == <<"t","o","p">>
S_bottom == <<"b","o","t","t","o","m">>
S_center == <<"c","e","n","t","e","r">>
S_left == <<"l","e","f","t">>
S_right == <<"r","i","g","h","t">>
Dash == <<"-">>

S_top_left == S_top \o Dash \o S_left
S_top_right == S_top \o Dash \o S_right
S_top_center == S_top \o Dash \o S_center
S_bottom_left == S_bottom \o Dash \o S_left
S_bottom_right == S_bottom \o Dash \o S_right
S_bottom_center == S_bottom \o Dash \o S_center
S_center_left == S_center \o Dash \o S_left
S_center_right == S_center \o Dash \o S_right
S_center_center == S_center \o Dash \o S_center

\* anchor strings a caller can pass that position_mappings does not list
S_middle_left == <<"m","i","d","d","l","e">> \o Dash \o S_left
S_upper_right == <<"u","p","p","e","r">> \o Dash \o S_right
S_left_top == S_left \o Dash \o S_top
S_middle == <<"m","i","d","d","l","e">>

PositionKeys ==
    {S_top, S_top_left, S_top_right, S_top_center,
     S_bottom, S_bottom_left, S_bottom_right, S_bottom_center,
     S_center, S_center_left, S_center_right, S_center_center}

OtherAnchors == {S_left, S_right, S_middle_left, S_upper_right, S_left_top,
                 S_middle, Empty}

Anchors == PositionKeys \cup OtherAnchors

\* self.position_mappings
position_mappings ==
    [k \in PositionKeys |->
        CASE k = S_top -> S_top_center
          [] k = S_bottom -> S_bottom_center
          [] k = S_center -> S_center_center
          [] OTHER -> k]

-----------------------------------------------------------------------------
(* _get_text_position: the text and font enter through the measured size    *)
(* (text_width, text_height) of font.getbbox(text).                         *)

_get_text_position_swapped(text_width, text_height, position, img_width, img_height, padding) ==
    LET normalized_pos == Get(position_mappings, position, S_bottom_center)
        y == IF Contains(S_top, normalized_pos) THEN padding
             ELSE IF Contains(S_bottom, normalized_pos)
                  THEN img_height - text_height - padding
                  ELSE (img_height - text_height) \div 2
        x == IF Contains(S_right, normalized_pos) THEN padding
             ELSE IF Contains(S_left, normalized_pos)
                  THEN img_width - text_width - padding
                  ELSE (img_width - text_width) \div 2
    IN  <<x, y>>

\* _get_text_position centring the left edge of the text, not the text
_get_text_position_left_edge(text_width, text_height, position, img_width, img_height, padding) ==
    LET normalized_pos == Get(position_mappings, position, S_bottom_center)
        y == IF Contains(S_top, normalized_pos) THEN padding
             ELSE IF Contains(S_bottom, normalized_pos)
                  THEN img_height - text_height - padding
                  ELSE (img_height - text_height) \div 2
        x == IF Contains(S_left, normalized_pos) THEN padding
             ELSE IF Contains(S_right, normalized_pos)
                  THEN img_width - text_width - padding
                  ELSE img_width \div 2
    IN  <<x, y>>

_get_text_position(text_width, text_height, position, img_width, img_height, padding) ==
    LET normalized_pos == Get(position_mappings, position, S_bottom_center)
        y == IF Contains(S_top, normalized_pos) THEN padding
             ELSE IF Contains(S_bottom, normalized_pos)
                  THEN img_height - text_height - padding
                  ELSE (img_height - text_height) \div 2
        x == IF Contains(S_left, normalized_pos) THEN padding
             ELSE IF Contains(S_right, normalized_pos)
                  THEN img_width - text_width - padding
                  ELSE (img_width - text_width) \div 2
    IN  <<x, y>>

-----------------------------------------------------------------------------
(* _check_text_bounds                                                        *)

_check_text_bounds_nomax(x, y, text_width, text_height, img_width, img_height, padding) ==
    LET x1 == IF x < padding THEN padding
              ELSE IF x + text_width > img_width - padding
                   THEN img_width - text_width - padding
                   ELSE x
        y1 == IF y < padding THEN padding
              ELSE IF y + text_height > img_height - padding
                   THEN img_height - text_height - padding
                   ELSE y
    IN  <<x1, y1>>

_check_text_bounds_noupper(x, y, text_width, text_height, img_width, img_height, padding) ==
    LET x1 == IF x < padding THEN padding ELSE x
        y1 == IF y < padding THEN padding ELSE y
    IN  <<Max(padding, x1), Max(padding, y1)>>

_check_text_bounds(x, y, text_width, text_height, img_width, img_height, padding) ==
    LET x1 == IF x < padding THEN padding
              ELSE IF x + text_width > img_width - padding
                   THEN img_width - text_width - padding
                   ELSE x
        y1 == IF y < padding THEN padding
              ELSE IF y + text_height > img_height - padding
                   THEN img_height - text_height - padding
                   ELSE y
    IN  <<Max(padding, x1), Max(padding, y1)>>

-----------------------------------------------------------------------------
(* Values of the variables a specification does not use.                     *)

Idle == <<>>

-----------------------------------------------------------------------------
(* SpecPosition: one call of _get_text_position on bounded inputs.           *)

PositionArgs ==
    [position : Anchors, img_width : 0..MaxImg, img_height : 0..MaxImg,
     text_width : 0..MaxText, text_height : 0..MaxText, padding : 0..MaxPad]

InitPosition ==
    /\ pc = "call"
    /\ args \in PositionArgs
    /\ ret = Idle
    /\ fs = Idle /\ idx = 0 /\ config = Idle /\ img = Idle /\ bbox = Idle
    /\ drawn = <<>> /\ fontCalls = <<>>

GetTextPosition ==
    /\ pc = "call"
    /\ ret' = _get_text_position(args.text_width, args.text_height, args.position,
                                 args.img_width, args.img_height, args.padding)
    /\ pc' = "positioned"
    /\ UNCHANGED <<args, fs, idx, config, img, bbox, drawn, fontCalls>>

NextPosition == GetTextPosition

SpecPosition == InitPosition /\ [][NextPosition]_vars

-----------------------------------------------------------------------------
(* SpecBounds: _check_text_bounds applied to a bounded (x, y), and then      *)
(* applied again to its own result with the same text, image and padding.    *)

BoundsArgs ==
    [x : (0 - Margin)..(MaxImg + Margin), y : (0 - Margin)..(MaxImg + Margin),
     img_width : 0..MaxImg, img_height : 0..MaxImg,
     text_width : 0..MaxText, text_height : 0..MaxText, padding : 0..MaxPad]

InitBounds ==
    /\ pc = "call"
    /\ args \in BoundsArgs
    /\ ret = Idle
    /\ fs = Idle /\ idx = 0 /\ config = Idle /\ img = Idle /\ bbox = Idle
    /\ drawn = <<>> /\ fontCalls = <<>>

CheckTextBounds ==
    /\ pc = "call"
    /\ ret' = <<_check_text_bounds(args.x, args.y, args.text_width, args.text_height,
                                   args.img_width, args.img_height, args.padding)>>
    /\ pc' = "clamped"
    /\ UNCHANGED <<args, fs, idx, config, img, bbox, drawn, fontCalls>>

CheckTextBoundsAgain ==
    /\ pc = "clamped"
    /\ ret' = Append(ret, _check_text_bounds(ret[1][1], ret[1][2],
                                             args.text_width, args.text_height,
                                             args.img_width, args.img_height,
                                             args.padding))
    /\ pc' = "reclamped"
    /\ UNCHANGED <<args, fs, idx, config, img, bbox, drawn, fontCalls>>

NextBounds == CheckTextBounds \/ CheckTextBoundsAgain

SpecBounds == InitBounds /\ [][NextBounds]_vars

-----------------------------------------------------------------------------
(* Claims about _get_text_position (under SpecPosition).                     *)

HCentred(x, a) == 2 * x <= a.img_width - a.text_width
                  /\ a.img_width - a.text_width <= 2 * x + 1

HByName(x, a) ==
    IF Contains(S_left, a.position) THEN x = a.padding
    ELSE IF Contains(S_right, a.position)
         THEN x = a.img_width - a.text_width - a.padding
         ELSE HCentred(x, a)

\* C1 as stated: for EVERY anchor string the caller passes, "left" in the
\* anchor gives x = padding, "right" gives x = img_width - text_width - padding,
\* and any other anchor gives the horizontally centred x (1px of rounding).
C1_AnyAnchorString ==
    pc = "positioned" => HByName(ret[1], args)

\* C1 amended: the rule holds for the anchors that are keys of
\* position_mappings; any other anchor string is placed as "bottom-center",
\* so its x is the horizontally centred value whatever the string contains.
C1_MappedAnchors ==
    pc = "positioned" =>
        IF args.position \in PositionKeys
        THEN HByName(ret[1], args)
        ELSE HCentred(ret[1], args)

C1_Witness ==
    /\ pc = "positioned"
    /\ args.position = S_center_right
    /\ args.text_width > 0 /\ args.padding > 0
    /\ ret[1] = args.img_width - args.text_width - args.padding

-----------------------------------------------------------------------------
(* Claims about _check_text_bounds (under SpecBounds).                       *)

\* C2: clamping is idempotent: clamping the clamped position again, with the
\* same text, image and padding, returns the same (x, y), also for a text
\* wider or taller than the image minus twice the padding.
C2_ClampIdempotent ==
    pc = "reclamped" => ret[2] = ret[1]

C2_Witness ==
    /\ pc = "reclamped"
    /\ args.text_width > args.img_width - 2 * args.padding
    /\ args.text_height > args.img_height - 2 * args.padding
    /\ args.x > args.padding
    /\ ret[1] # <<args.x, args.y>>
    /\ ret[2] = ret[1]

InsideX(x, a) == a.padding <= x /\ x + a.text_width <= a.img_width - a.padding
InsideY(y, a) == a.padding <= y /\ y + a.text_height <= a.img_height - a.padding

\* C3 as stated: for EVERY input the clamped bounding box lies within
\* [padding, dimension - padding] on both axes.
C3_AlwaysInside ==
    pc = "clamped" => InsideX(ret[1][1], args) /\ InsideY(ret[1][2], args)

\* C3 amended: the clamped x and y are always >= padding, and on each axis
\* on which the text fits (text size + 2 * padding <= image size) the
\* bounding box lies within [padding, dimension - padding]; on an axis where
\* the text does not fit the result is exactly padding and the box overruns
\* the far edge.
C3_InsideWhenFits ==
    pc = "clamped" =>
        /\ ret[1][1] >= args.padding
        /\ ret[1][2] >= args.padding
        /\ IF args.text_width + 2 * args.padding <= args.img_width
           THEN InsideX(ret[1][1], args)
           ELSE ret[1][1] = args.padding
        /\ IF args.text_height + 2 * args.padding <= args.img_height
           THEN InsideY(ret[1][2], args)
           ELSE ret[1][2] = args.padding

C3_Witness ==
    /\ pc = "clamped"
    /\ args.text_width > 0 /\ args.padding > 0
    /\ args.text_width + 2 * args.padding <= args.img_width
    /\ args.text_height + 2 * args.padding > args.img_height
    /\ args.x + args.text_width > args.img_width - args.padding
    /\ ret[1][1] = args.img_width - args.text_width - args.padding
    /\ ret[1][2] = args.padding

-----------------------------------------------------------------------------
(* _load_font: the candidate table, and the walk over it.                    *)

P_jetbrains == "xshot/xshot_py/assets/fonts/JetBrains Mono Medium Nerd Font Complete.ttf"
P_monaco == "/System/Library/Fonts/Monaco.ttf"
P_inter == "assets/fonts/Inter-Regular.ttf"
P_playfair == "assets/fonts/PlayfairDisplay-Regular.ttf"

\* font_paths
font_paths ==
    [mono |->
        [linux |-> <<P_jetbrains,
                     "/usr/share/fonts/truetype/dejavu/DejaVuSansMono.ttf",
                     "/usr/share/fonts/truetype/liberation/LiberationMono-Regular.ttf",
                     "/usr/share/fonts/TTF/DejaVuSansMono.ttf",
                     P_monaco>>,
         darwin |-> <<P_jetbrains, P_monaco, "/Library/Fonts/JetBrainsMono-Regular.ttf">>,
         windows |-> <<P_jetbrains, "C:/Windows/Fonts/consola.ttf">>],
     sans |->
        [linux |-> <<"/usr/share/fonts/truetype/dejavu/DejaVuSans.ttf",
                     "/usr/share/fonts/truetype/liberation/LiberationSans-Regular.ttf",
                     "/usr/share/fonts/TTF/DejaVuSans.ttf",
                     P_inter>>,
         darwin |-> <<"/System/Library/Fonts/Helvetica.ttc",
                      "/Library/Fonts/Inter-Regular.ttf", P_inter>>,
         windows |-> <<"C:/Windows/Fonts/arial.ttf", P_inter>>],
     serif |->
        [linux |-> <<"/usr/share/fonts/truetype/dejavu/DejaVuSerif.ttf",
                     "/usr/share/fonts/truetype/liberation/LiberationSerif-Regular.ttf",
                     P_playfair>>,
         darwin |-> <<"/System/Library/Fonts/Times.ttc",
                      "/Library/Fonts/PlayfairDisplay-Regular.ttf", P_playfair>>,
         windows |-> <<"C:/Windows/Fonts/times.ttf", P_playfair>>],
     modern |->
        [linux |-> <<"assets/fonts/Poppins-Regular.ttf">>,
         darwin |-> <<"assets/fonts/Poppins-Regular.ttf">>,
         windows |-> <<"assets/fonts/Poppins-Regular.ttf">>],
     classic |->
        [linux |-> <<"assets/fonts/SourceSerif-Regular.ttf">>,
         darwin |-> <<"assets/fonts/SourceSerif-Regular.ttf">>,
         windows |-> <<"assets/fonts/SourceSerif-Regular.ttf">>],
     minimal |->
        [linux |-> <<"assets/fonts/IBMPlexSans-Regular.ttf">>,
         darwin |-> <<"assets/fonts/IBMPlexSans-Regular.ttf">>,
         windows |-> <<"assets/fonts/IBMPlexSans-Regular.ttf">>]]

\* font_list = font_paths.get(family, font_paths["mono"])
\*                       .get(system, font_paths["mono"]["linux"])
font_list(family, system) ==
    Get(Get(font_paths, family, font_paths["mono"]), system, font_paths["mono"]["linux"])

\* ImageFont.load_default()
DefaultFont == [path |-> "load_default()", size |-> 0]

\* ImageFont.truetype(font_path, size) on a path that exists: the font, or
\* the exception it raises.  A file that is no font raises OSError; a size
\* that the library refuses raises the same exception for every file,
\* OSError or ValueError according to the library's version.
truetype(font_path, a, fsv) ==
    IF a.size <= 0 /\ a.size_error = "ValueError" THEN "ValueError"
    ELSE IF fsv[font_path] = "corrupt" THEN "OSError"
    ELSE IF a.size <= 0 THEN a.size_error
    ELSE "ok"

\* one iteration of `for font_path in font_list` with the inner handler
\* dropped: an OSError leaves the loop for the outer handler.
TryFontPath_nocatch(font_path, a, fsv) ==
    IF fsv[font_path] = "missing" THEN "continue"
    ELSE IF truetype(font_path, a, fsv) = "ok" THEN "return"
    ELSE "raise"

\* one iteration of `for font_path in font_list`: what the body does
TryFontPath(font_path, a, fsv) ==
    IF fsv[font_path] = "missing" THEN "continue"
    ELSE LET r == truetype(font_path, a, fsv)
         IN  IF r = "ok" THEN "return"
             ELSE IF r = "OSError" THEN "continue"
             ELSE "raise"

Families == {"mono", "sans", "serif", "modern", "classic", "minimal", "comic"}
Systems == {"linux", "darwin", "windows", "freebsd"}
FileStates == {"missing", "font", "corrupt"}
Range(seq) == {seq[i] : i \in DOMAIN seq}

\* family_hashable = FALSE: a family value (a list) that dict.get cannot hash
FontArgs ==
    [family : Families, family_hashable : BOOLEAN, system : Systems,
     style : {"normal", "heavy"}, size : {0, 20},
     size_error : {"OSError", "ValueError"}]

InitFont ==
    /\ pc = "call"
    /\ args \in FontArgs
    /\ fs \in [Range(font_list(args.family, args.system)) -> FileStates]
    /\ idx = 0
    /\ ret = Idle
    /\ config = Idle /\ img = Idle /\ bbox = Idle
    /\ drawn = <<>> /\ fontCalls = <<>>

\* lines 72-146: the table lookup; an unhashable family raises TypeError
LoadFontEnter ==
    /\ pc = "call"
    /\ IF args.family_hashable
       THEN pc' = "walk" /\ idx' = 1
       ELSE pc' = "except" /\ idx' = idx
    /\ UNCHANGED <<args, ret, fs, config, img, bbox, drawn, fontCalls>>

\* lines 148-154: one candidate
LoadFontTry ==
    /\ pc = "walk"
    /\ idx <= Len(font_list(args.family, args.system))
    /\ LET font_path == font_list(args.family, args.system)[idx]
           step == TryFontPath(font_path, args, fs)
       IN  \/ /\ step = "return"
              /\ ret' = [path |-> font_path, size |-> args.size]
              /\ pc' = "returned"
              /\ idx' = idx
           \/ /\ step = "continue"
              /\ idx' = idx + 1
              /\ UNCHANGED <<pc, ret>>
           \/ /\ step = "raise"
              /\ pc' = "except"
              /\ UNCHANGED <<idx, ret>>
    /\ UNCHANGED <<args, fs, config, img, bbox, drawn, fontCalls>>

\* lines 156-157: no candidate resolved
LoadFontFallback ==
    /\ pc = "walk"
    /\ idx > Len(font_list(args.family, args.system))
    /\ ret' = DefaultFont
    /\ pc' = "returned"
    /\ UNCHANGED <<args, idx, fs, config, img, bbox, drawn, fontCalls>>

\* lines 159-161: the outer handler
LoadFontExcept ==
    /\ pc = "except"
    /\ ret' = DefaultFont
    /\ pc' = "returned"
    /\ UNCHANGED <<args, idx, fs, config, img, bbox, drawn, fontCalls>>

NextFont == LoadFontEnter \/ LoadFontTry \/ LoadFontFallback \/ LoadFontExcept

SpecFont == InitFont /\ [][NextFont]_vars

\* the candidate exists and loads
Loads(font_path) == fs[font_path] = "font" /\ truetype(font_path, args, fs) = "ok"

FirstLoadable ==
    LET L == font_list(args.family, args.system)
        good == {i \in DOMAIN L : Loads(L[i])}
    IN  IF ~args.family_hashable \/ good = {} THEN DefaultFont
        ELSE [path |-> L[CHOOSE i \in good : \A j \in good : i <= j],
              size |-> args.size]

\* C6: _load_font never raises to its caller: every call ends by returning,
\* and it returns the first candidate of the platform's ordered list that
\* exists and loads (missing and unloadable candidates are skipped), or the
\* built-in default font when no candidate resolves.
C6_FontResolution ==
    /\ pc \in {"call", "walk", "except", "returned"}
    /\ pc # "returned" => ENABLED NextFont
    /\ pc = "returned" => ret = FirstLoadable

C6_Witness ==
    /\ pc = "returned"
    /\ idx = 3
    /\ fs[font_list(args.family, args.system)[1]] = "missing"
    /\ fs[font_list(args.family, args.system)[2]] = "corrupt"
    /\ ret = [path |-> font_list(args.family, args.system)[3], size |-> args.size]

-----------------------------------------------------------------------------
(* Colour values of a configuration, and what the drawing library makes of   *)
(* them.  A colour is a str (s), a tuple (t) or a list (t).                  *)

StrColor(s) == [kind |-> "str", s |-> s, t |-> <<>>]
TupleColor(t) == [kind |-> "tuple", s |-> <<>>, t |-> t]
ListColor(t) == [kind |-> "list", s |-> <<>>, t |-> t]

C_black == StrColor(<<"#","0","0","0","0","0","0">>)
C_white == StrColor(<<"#","F","F","F","F","F","F">>)
C_short == StrColor(<<"#","f","8","0">>)
C_alpha == StrColor(<<"#","1","0","2","0","3","0","8","0">>)
C_badhex == StrColor(<<"#","G","G","0","0","0","0">>)
C_badlen == StrColor(<<"#","1","2">>)
C_red == StrColor(<<"r","e","d">>)
C_unknown == StrColor(<<"r","e","d","d","i","s","h">>)
C_tuple == TupleColor(<<10, 20, 30>>)
C_list == ListColor(<<10, 20, 30>>)

HexDigits == <<"0","1","2","3","4","5","6","7","8","9","a","b","c","d","e","f">>
UpperHex == <<"A","B","C","D","E","F">>

IsHexChar(c) == c \in Range(HexDigits) \cup Range(UpperHex)

\* int(c, 16)
HexVal(c) ==
    IF c \in Range(HexDigits)
    THEN (CHOOSE i \in DOMAIN HexDigits : HexDigits[i] = c) - 1
    ELSE (CHOOSE i \in DOMAIN UpperHex : UpperHex[i] = c) + 9

\* ImageColor.colormap, the names the configurations of the model use
colormap == (<<"r","e","d">> :> <<255, 0, 0>>) @@ (<<"w","h","i","t","e">> :> <<255, 255, 255>>)

\* ImageColor.getrgb(color): the tuple, or ValueError (ok = FALSE)
getrgb(s) ==
    LET hex == Len(s) >= 1 /\ s[1] = "#" /\ \A i \in 2..Len(s) : IsHexChar(s[i])
        one(i) == 17 * HexVal(s[i])
        two(i) == 16 * HexVal(s[i]) + HexVal(s[i + 1])
    IN  IF s \in DOMAIN colormap THEN [ok |-> TRUE, rgb |-> colormap[s]]
        ELSE IF hex /\ Len(s) = 4 THEN [ok |-> TRUE, rgb |-> <<one(2), one(3), one(4)>>]
        ELSE IF hex /\ Len(s) = 5
             THEN [ok |-> TRUE, rgb |-> <<one(2), one(3), one(4), one(5)>>]
        ELSE IF hex /\ Len(s) = 7 THEN [ok |-> TRUE, rgb |-> <<two(2), two(4), two(6)>>]
        ELSE IF hex /\ Len(s) = 9
             THEN [ok |-> TRUE, rgb |-> <<two(2), two(4), two(6), two(8)>>]
        ELSE [ok |-> FALSE, rgb |-> <<>>]

\* whether draw.text / draw.rectangle accept the colour (ImageDraw._getink):
\* a str goes through getrgb, a tuple needs 1, 3 or 4 items, a list is
\* refused
InkOk(c) ==
    CASE c.kind = "str" -> getrgb(c.s).ok
      [] c.kind = "tuple" -> Len(c.t) \in {1, 3, 4}
      [] OTHER -> FALSE

-----------------------------------------------------------------------------
(* Draw calls.  `drawn` is the sequence of the calls issued on ImageDraw      *)
(* objects, each with the object it was issued on (draw), the source line    *)
(* of the call, and its arguments.  A call whose colour the library refuses  *)
(* raises, and it is the last call of its run.                               *)

NoFont == [family |-> "", size |-> 0, style |-> ""]

TextCall(draw, line, xy, text, fill, font) ==
    [draw |-> draw, line |-> line, op |-> "text", xy |-> xy, text |-> text,
     fill |-> fill, font |-> font]

RectCall(draw, line, op, box, color) ==
    [draw |-> draw, line |-> line, op |-> op, xy |-> box, text |-> "",
     fill |-> color, font |-> NoFont]

Done(log) == [log |-> log, raised |-> FALSE]
Raised(log) == [log |-> log, raised |-> TRUE]

\* the calls of `calls` that are issued, in order: all of them, or those up
\* to and including the first that raises
Issue(calls) ==
    LET bad == {i \in DOMAIN calls : ~InkOk(calls[i].fill)}
    IN  IF bad = {} THEN Done(calls)
        ELSE Raised(SubSeq(calls, 1, CHOOSE i \in bad : \A j \in bad : i <= j))

\* r1 ; r2
Then(r1, r2) ==
    IF r1.raised THEN r1 ELSE [log |-> r1.log \o r2.log, raised |-> r2.raised]

\* font.getbbox(text) -> (left, top, right, bottom)
TextWidth(bb) == bb[3] - bb[1]
TextHeight(bb) == bb[4] - bb[2]

DefaultBgOpacity == 128
DefaultBgPadding == <<10, 5>>
DefaultShadowOffset == <<2, 2>>
DefaultBorderWidth == 1
DefaultOutlineWidth == 1

\* _draw_text_background, bb = font.getbbox(text)
_draw_text_background(draw, bb, position, cfg) ==
    LET x == position[1]
        y == position[2]
        bg_color == Get(cfg, "background_color", C_black)
        bg_opacity == Get(cfg, "background_opacity", DefaultBgOpacity)
        padding == Get(cfg, "background_padding", DefaultBgPadding)
        box == <<x - padding[1], y - padding[2],
                 x + TextWidth(bb) + padding[1], y + TextHeight(bb) + padding[2]>>
        hash == bg_color.kind = "str" /\ Len(bg_color.s) >= 1 /\ bg_color.s[1] = "#"
        bg_color_rgba ==
            IF hash THEN getrgb(bg_color.s).rgb \o <<bg_opacity>>
            ELSE IF bg_color.kind = "tuple" THEN bg_color.t \o <<bg_opacity>>
            ELSE <<0, 0, 0, bg_opacity>>
        border_color == Get(cfg, "border_color", C_white)
        border_width == Get(cfg, "border_width", DefaultBorderWidth)
        fill == <<RectCall(draw, 285, "rectangle_fill", box, TupleColor(bg_color_rgba))>>
        border ==
            IF Get(cfg, "background_border", FALSE)
            THEN [k \in 1..border_width |->
                    RectCall(draw, 293, "rectangle_outline",
                             <<box[1] - (k - 1), box[2] - (k - 1),
                               box[3] + (k - 1), box[4] + (k - 1)>>,
                             border_color)]
            ELSE <<>>
    IN  IF hash /\ ~getrgb(bg_color.s).ok THEN Raised(<<>>)
        ELSE Issue(fill \o border)

\* the offsets of the outline loops, in the order the loops visit them
OutlineOffsets(outline_width) ==
    LET n == IF outline_width >= 0 THEN 2 * outline_width + 1 ELSE 0
        all == [k \in 1..(n * n) |->
                   <<((k - 1) \div n) - outline_width, ((k - 1) % n) - outline_width>>]
        NotOrigin(d) == d[1] # 0 \/ d[2] # 0
    IN  SelectSeq(all, NotOrigin)

\* _apply_text_effects with the default of "text_shadow" taken as True
_apply_text_effects_shadow_default_on(draw, text, bb, position, font, cfg) ==
    LET x == position[1]
        y == position[2]
        background ==
            IF Get(cfg, "background_enabled", FALSE)
            THEN _draw_text_background(draw, bb, position, cfg)
            ELSE Done(<<>>)
        shadow_offset == Get(cfg, "shadow_offset", DefaultShadowOffset)
        shadow ==
            IF Get(cfg, "text_shadow", TRUE)
            THEN <<TextCall(draw, 229, <<x + shadow_offset[1], y + shadow_offset[2]>>,
                            text, Get(cfg, "shadow_color", C_white), font)>>
            ELSE <<>>
        offsets == OutlineOffsets(Get(cfg, "outline_width", DefaultOutlineWidth))
        outline ==
            IF Get(cfg, "text_outline", FALSE)
            THEN [k \in DOMAIN offsets |->
                    TextCall(draw, 240, <<x + offsets[k][1], y + offsets[k][2]>>,
                             text, Get(cfg, "outline_color", C_white), font)]
            ELSE <<>>
        main == <<TextCall(draw, 244, <<x, y>>, text, Get(cfg, "color", C_black), font)>>
    IN  Then(background, Issue(shadow \o outline \o main))

\* _apply_text_effects, bb = font.getbbox(text)
_apply_text_effects(draw, text, bb, position, font, cfg) ==
    LET x == position[1]
        y == position[2]
        background ==
            IF Get(cfg, "background_enabled", FALSE)
            THEN _draw_text_background(draw, bb, position, cfg)
            ELSE Done(<<>>)
        shadow_offset == Get(cfg, "shadow_offset", DefaultShadowOffset)
        shadow ==
            IF Get(cfg, "text_shadow", FALSE)
            THEN <<TextCall(draw, 229, <<x + shadow_offset[1], y + shadow_offset[2]>>,
                            text, Get(cfg, "shadow_color", C_white), font)>>
            ELSE <<>>
        offsets == OutlineOffsets(Get(cfg, "outline_width", DefaultOutlineWidth))
        outline ==
            IF Get(cfg, "text_outline", FALSE)
            THEN [k \in DOMAIN offsets |->
                    TextCall(draw, 240, <<x + offsets[k][1], y + offsets[k][2]>>,
                             text, Get(cfg, "outline_color", C_white), font)]
            ELSE <<>>
        main == <<TextCall(draw, 244, <<x, y>>, text, Get(cfg, "color", C_black), font)>>
    IN  Then(background, Issue(shadow \o outline \o main))

-----------------------------------------------------------------------------
(* SpecEffects: one call of _apply_text_effects.                             *)

BgParts ==
    {Empty, [background_enabled |-> FALSE, background_color |-> C_badhex]}
    \cup {[background_enabled |-> TRUE, background_color |-> c] :
             c \in {C_short, C_alpha, C_badhex, C_red, C_tuple, C_list}}
    \cup {[background_enabled |-> TRUE, background_border |-> TRUE, border_width |-> w] :
             w \in 0..MaxBorder}
    \cup {[background_enabled |-> TRUE, background_border |-> TRUE],
          [background_enabled |-> TRUE, background_border |-> TRUE,
           border_color |-> C_badlen, background_opacity |-> 200,
           background_padding |-> <<4, 2>>]}

ShadowParts ==
    {Empty, [text_shadow |-> TRUE],
     [text_shadow |-> TRUE, shadow_offset |-> <<0, 0>>, shadow_color |-> C_black],
     [text_shadow |-> TRUE, shadow_color |-> C_unknown]}

OutlineParts ==
    {Empty, [text_outline |-> TRUE], [text_outline |-> TRUE, outline_color |-> C_list]}
    \cup {[text_outline |-> TRUE, outline_width |-> w, outline_color |-> C_red] :
             w \in (0 - 1)..MaxOutline}

ColorParts == {Empty, [color |-> C_tuple], [color |-> C_badhex]}

EffectConfigs ==
    {b @@ sh @@ o @@ c : b \in BgParts, sh \in ShadowParts, o \in OutlineParts,
                         c \in ColorParts}

EffectsArgs ==
    [cfg : EffectConfigs, position : {<<20, 20>>, <<348, 564>>},
     text : {"Shot by XShot"}, bb : {<<0, 4, 104, 20>>},
     font : {[family |-> "mono", size |-> 20, style |-> "normal"]}]

InitEffects ==
    /\ pc = "call"
    /\ args \in EffectsArgs
    /\ ret = Idle
    /\ fs = Idle /\ idx = 0 /\ config = Idle /\ img = Idle /\ bbox = Idle
    /\ drawn = <<>> /\ fontCalls = <<>>

ApplyTextEffects ==
    /\ pc = "call"
    /\ LET r == _apply_text_effects([by |-> "caller", n |-> 0], args.text, args.bb, args.position,
                                    args.font, args.cfg)
       IN  /\ drawn' = drawn \o r.log
           /\ pc' = IF r.raised THEN "raised" ELSE "applied"
    /\ UNCHANGED <<args, ret, fs, idx, config, img, bbox, fontCalls>>

NextEffects == ApplyTextEffects

SpecEffects == InitEffects /\ [][NextEffects]_vars

\* the lines of the draw calls the claimed order prescribes for a configuration
OrderedLines(cfg) ==
    LET bg == Get(cfg, "background_enabled", FALSE)
        bw == IF bg /\ Get(cfg, "background_border", FALSE)
              THEN Get(cfg, "border_width", DefaultBorderWidth) ELSE 0
        w == Get(cfg, "outline_width", DefaultOutlineWidth)
        n == IF Get(cfg, "text_outline", FALSE) /\ w >= 0
             THEN (2 * w + 1) * (2 * w + 1) - 1 ELSE 0
    IN  (IF bg THEN <<285>> ELSE <<>>) \o [k \in 1..bw |-> 293]
        \o (IF Get(cfg, "text_shadow", FALSE) THEN <<229>> ELSE <<>>)
        \o [k \in 1..n |-> 240] \o <<244>>

OutlineSquare(cfg, position) ==
    LET w == Get(cfg, "outline_width", DefaultOutlineWidth)
    IN  {<<position[1] + dx, position[2] + dy>> : dx \in (0 - w)..w, dy \in (0 - w)..w}
        \ {position}

InOrder ==
    /\ [i \in DOMAIN drawn |-> drawn[i].line] = OrderedLines(args.cfg)
    /\ drawn[Len(drawn)].xy = args.position
    /\ Get(args.cfg, "text_outline", FALSE) =>
          {drawn[i].xy : i \in {j \in DOMAIN drawn : drawn[j].line = 240}}
              = OutlineSquare(args.cfg, args.position)

\* C9: in EVERY call of _apply_text_effects the draw calls are issued in the
\* fixed order background fill, border(s), shadow, outline at every offset
\* of the square but (0, 0), primary text; the primary text draw always
\* happens, exactly once, and is the last draw call.
C9_FixedOrderPrimaryLast ==
    pc \in {"applied", "raised"} => InOrder

\* what holds of the code: a call that returns has issued the calls in the
\* claimed order; a call that raises has issued a proper prefix of them or
\* ends at the refused call.
C9_OrderOfReturningCalls ==
    pc = "applied" => InOrder

-----------------------------------------------------------------------------
(* The render entry points.  A run of render_all_text is one step per entry  *)
(* point.  bbox is the font metric of the run: font.getbbox(text) for the    *)
(* font _load_font(family, size, style) returned.                            *)

DefaultPadding == 20
TimeGap == 5
DefaultHeaderSize == 22
DefaultHeaderTimeSize == 18
DefaultFooterSize == 20
DefaultFooterTimeSize == 15
DefaultCustomSize == 16

DefaultTimeFormat == "%a %d.%b.%Y %H:%M"

\* datetime.now().strftime(time_format), the clock of the run being fixed
strftime(time_format) ==
    IF time_format = DefaultTimeFormat THEN "Fri 06.Nov.2026 07:00" ELSE "07:00"

\* len(text) of the texts of the model
NChars ==
    [t \in {"XShot Screenshot", "Header", "Shot by XShot", "Footer", "Custom Text",
            "Note", "Fri 06.Nov.2026 07:00", "07:00"} |->
        CASE t = "XShot Screenshot" -> 16
          [] t = "Header" -> 6
          [] t = "Shot by XShot" -> 13
          [] t = "Footer" -> 6
          [] t = "Custom Text" -> 11
          [] t = "Note" -> 4
          [] t = "Fri 06.Nov.2026 07:00" -> 21
          [] OTHER -> 5]

\* font.getbbox(text) under the metric m of the run
getbbox(m, text, font) ==
    <<0, (font.size * m.top) \div 10,
      (NChars[text] * font.size * m.advance) \div 10, font.size>>

Nothing == [log |-> <<>>, fonts |-> <<>>, raised |-> FALSE]

FontCall(draw, font) == [draw |-> draw, font |-> font]

\* the header check with the default of "enabled" taken as True
HeaderEnabled_default_true(cfg) == Get(Get(cfg, "header", Empty), "enabled", TRUE)

\* self.config.get("header", {}).get("enabled", False)
HeaderEnabled(cfg) == Get(Get(cfg, "header", Empty), "enabled", FALSE)

\* self.config.get("footer", {}).get("enabled", False)
FooterEnabled(cfg) == Get(Get(cfg, "footer", Empty), "enabled", FALSE)

\* render_header placing a timestamp above the text by the size of the main font
render_header_above_by_font_size(cfg, size, m) ==
    IF ~HeaderEnabled(cfg) THEN Nothing
    ELSE
    LET header_config == Get(cfg, "header", Empty)
        width == size[1]
        height == size[2]
        draw == [by |-> "header", n |-> 0]
        font_size == Get(header_config, "size", DefaultHeaderSize)
        font == [family |-> Get(header_config, "font_family", "sans"),
                 size |-> font_size,
                 style |-> Get(header_config, "font_style", "normal")]
        header_text == Get(header_config, "text", "XShot Screenshot")
        position == Get(header_config, "position", S_top)
        bb == getbbox(m, header_text, font)
        p0 == _get_text_position(TextWidth(bb), TextHeight(bb), position,
                                 width, height, DefaultPadding)
        p1 == _check_text_bounds(p0[1], p0[2], TextWidth(bb), TextHeight(bb),
                                 width, height, DefaultPadding)
        main == _apply_text_effects(draw, header_text, bb, p1, font, header_config)
        time_size == Get(header_config, "time_size", DefaultHeaderTimeSize)
        time_text == strftime(Get(header_config, "time_format", DefaultTimeFormat))
        time_font == [family |-> font.family, size |-> time_size, style |-> font.style]
        tb == getbbox(m, time_text, time_font)
        t0 == _get_text_position(TextWidth(tb), TextHeight(tb), position,
                                 width, height, DefaultPadding)
        time_y == IF Contains(S_top, position)
                  THEN p1[2] + font_size + TimeGap
                  ELSE p1[2] - font_size - TimeGap
        t1 == _check_text_bounds(t0[1], time_y, TextWidth(tb), TextHeight(tb),
                                 width, height, DefaultPadding)
        time == _apply_text_effects(draw, time_text, tb, t1, time_font, header_config)
    IN  IF main.raised \/ ~Get(header_config, "show_time", FALSE)
        THEN [log |-> main.log, fonts |-> <<FontCall(draw, font)>>, raised |-> main.raised]
        ELSE [log |-> main.log \o time.log,
              fonts |-> <<FontCall(draw, font), FontCall(draw, time_font)>>,
              raised |-> time.raised]

\* render_header
render_header(cfg, size, m) ==
    IF ~HeaderEnabled(cfg) THEN Nothing
    ELSE
    LET header_config == Get(cfg, "header", Empty)
        width == size[1]
        height == size[2]
        draw == [by |-> "header", n |-> 0]
        font_size == Get(header_config, "size", DefaultHeaderSize)
        font == [family |-> Get(header_config, "font_family", "sans"),
                 size |-> font_size,
                 style |-> Get(header_config, "font_style", "normal")]
        header_text == Get(header_config, "text", "XShot Screenshot")
        position == Get(header_config, "position", S_top)
        bb == getbbox(m, header_text, font)
        p0 == _get_text_position(TextWidth(bb), TextHeight(bb), position,
                                 width, height, DefaultPadding)
        p1 == _check_text_bounds(p0[1], p0[2], TextWidth(bb), TextHeight(bb),
                                 width, height, DefaultPadding)
        main == _apply_text_effects(draw, header_text, bb, p1, font, header_config)
        time_size == Get(header_config, "time_size", DefaultHeaderTimeSize)
        time_text == strftime(Get(header_config, "time_format", DefaultTimeFormat))
        time_font == [family |-> font.family, size |-> time_size, style |-> font.style]
        tb == getbbox(m, time_text, time_font)
        t0 == _get_text_position(TextWidth(tb), TextHeight(tb), position,
                                 width, height, DefaultPadding)
        time_y == IF Contains(S_top, position)
                  THEN p1[2] + font_size + TimeGap
                  ELSE p1[2] - time_size - TimeGap
        t1 == _check_text_bounds(t0[1], time_y, TextWidth(tb), TextHeight(tb),
                                 width, height, DefaultPadding)
        time == _apply_text_effects(draw, time_text, tb, t1, time_font, header_config)
    IN  IF main.raised \/ ~Get(header_config, "show_time", FALSE)
        THEN [log |-> main.log, fonts |-> <<FontCall(draw, font)>>, raised |-> main.raised]
        ELSE [log |-> main.log \o time.log,
              fonts |-> <<FontCall(draw, font), FontCall(draw, time_font)>>,
              raised |-> time.raised]

\* render_footer
render_footer(cfg, size, m) ==
    IF ~FooterEnabled(cfg) THEN Nothing
    ELSE
    LET footer_config == Get(cfg, "footer", Empty)
        width == size[1]
        height == size[2]
        draw == [by |-> "footer", n |-> 0]
        font_size == Get(footer_config, "size", DefaultFooterSize)
        font == [family |-> Get(footer_config, "font_family", "mono"),
                 size |-> font_size,
                 style |-> Get(footer_config, "font_style", "normal")]
        footer_text == Get(footer_config, "text", "Shot by XShot")
        position == Get(footer_config, "position", S_bottom)
        bb == getbbox(m, footer_text, font)
        p0 == _get_text_position(TextWidth(bb), TextHeight(bb), position,
                                 width, height, DefaultPadding)
        p1 == _check_text_bounds(p0[1], p0[2], TextWidth(bb), TextHeight(bb),
                                 width, height, DefaultPadding)
        main == _apply_text_effects(draw, footer_text, bb, p1, font, footer_config)
        time_size == Get(footer_config, "time_size", DefaultFooterTimeSize)
        time_text == strftime(Get(footer_config, "time_format", DefaultTimeFormat))
        time_font == [family |-> font.family, size |-> time_size, style |-> font.style]
        tb == getbbox(m, time_text, time_font)
        t0 == _get_text_position(TextWidth(tb), TextHeight(tb), position,
                                 width, height, DefaultPadding)
        time_y == IF Contains(S_bottom, position)
                  THEN p1[2] - time_size - TimeGap
                  ELSE p1[2] + font_size + TimeGap
        t1 == _check_text_bounds(t0[1], time_y, TextWidth(tb), TextHeight(tb),
                                 width, height, DefaultPadding)
        time == _apply_text_effects(draw, time_text, tb, t1, time_font, footer_config)
    IN  IF main.raised \/ ~Get(footer_config, "show_time", FALSE)
        THEN [log |-> main.log, fonts |-> <<FontCall(draw, font)>>, raised |-> main.raised]
        ELSE [log |-> main.log \o time.log,
              fonts |-> <<FontCall(draw, font), FontCall(draw, time_font)>>,
              raised |-> time.raised]

\* _render_custom_element; n numbers the elements in the order they are rendered
_render_custom_element(element, n, size, m) ==
    IF ~Get(element, "enabled", TRUE) THEN Nothing
    ELSE
    LET width == size[1]
        height == size[2]
        draw == [by |-> "custom", n |-> n]
        font == [family |-> Get(element, "font_family", "mono"),
                 size |-> Get(element, "size", DefaultCustomSize),
                 style |-> Get(element, "font_style", "normal")]
        text == Get(element, "text", "Custom Text")
        position == Get(element, "position", S_center)
        bb == getbbox(m, text, font)
        p0 == _get_text_position(TextWidth(bb), TextHeight(bb), position,
                                 width, height, DefaultPadding)
        offset == Get(element, "offset", <<0, 0>>)
        p1 == _check_text_bounds(p0[1] + offset[1], p0[2] + offset[2],
                                 TextWidth(bb), TextHeight(bb),
                                 width, height, DefaultPadding)
        main == _apply_text_effects(draw, text, bb, p1, font, element)
    IN  [log |-> main.log, fonts |-> <<FontCall(draw, font)>>, raised |-> main.raised]

\* r1 ; r2 for the results of render steps
ThenRender(r1, r2) ==
    IF r1.raised THEN r1
    ELSE [log |-> r1.log \o r2.log, fonts |-> r1.fonts \o r2.fonts, raised |-> r2.raised]

\* the elements render_custom_elements visits, in order: the footer's, then
\* the header's
CustomElements(cfg) ==
    Get(Get(cfg, "footer", Empty), "custom_elements", <<>>)
    \o Get(Get(cfg, "header", Empty), "custom_elements", <<>>)

RECURSIVE RenderElements(_, _, _, _)
RenderElements(elements, n, size, m) ==
    IF n > Len(elements) THEN Nothing
    ELSE ThenRender(_render_custom_element(elements[n], n, size, m),
                    RenderElements(elements, n + 1, size, m))

\* render_custom_elements
render_custom_elements(cfg, size, m) == RenderElements(CustomElements(cfg), 1, size, m)

-----------------------------------------------------------------------------
(* Spec: render_all_text on the configurations and images of the model.      *)

Styles ==
    {Empty,
     [background_enabled |-> FALSE, text_shadow |-> FALSE, text_outline |-> FALSE,
      show_time |-> FALSE, color |-> C_tuple],
     [color |-> C_badhex],
     [text_shadow |-> TRUE, shadow_color |-> C_red],
     [text_outline |-> TRUE, background_enabled |-> TRUE, background_border |-> TRUE],
     [background_enabled |-> TRUE, background_color |-> C_badlen]}

HeaderTimeOpts ==
    {Empty, [show_time |-> TRUE],
     [show_time |-> TRUE, time_format |-> "%H:%M", time_size |-> 12]}

FooterTimeOpts ==
    {Empty, [show_time |-> TRUE],
     [show_time |-> TRUE, time_format |-> "%H:%M", time_size |-> 10]}

HeaderPlaces ==
    {Empty, [position |-> S_bottom_right],
     [position |-> S_left_top, text |-> "Header", size |-> 14, font_family |-> "serif",
      font_style |-> "bold"]}

FooterPlaces ==
    {Empty, [position |-> S_bottom_center],
     [position |-> S_top_right, text |-> "Footer", size |-> 12]}

HeaderSections ==
    {[enabled |-> TRUE] @@ st @@ t @@ pl :
        st \in Styles, t \in HeaderTimeOpts, pl \in HeaderPlaces}
    \cup {Empty, [enabled |-> FALSE, text |-> "Header", show_time |-> TRUE]}

FooterSections ==
    {[enabled |-> TRUE] @@ st @@ t @@ pl :
        st \in Styles, t \in FooterTimeOpts, pl \in FooterPlaces}
    \cup {Empty, [enabled |-> FALSE, text |-> "Footer", text_shadow |-> TRUE]}

El_default == Empty
El_off == [enabled |-> FALSE, text |-> "Note"]
El_note == [text |-> "Note", position |-> S_top_left, offset |-> <<0 - 30, 7>>,
            size |-> 14, color |-> C_red]
El_far == [text |-> "Note", text_shadow |-> TRUE, offset |-> <<900, 900>>]
El_bad == [color |-> C_list]

\* the custom_elements lists of the header and of the footer
CustomChoices ==
    {[header |-> Empty, footer |-> Empty],
     [header |-> [custom_elements |-> <<El_note>>],
      footer |-> [custom_elements |-> <<El_default, El_off>>]],
     [header |-> [custom_elements |-> <<>>], footer |-> [custom_elements |-> <<El_far>>]],
     [header |-> [custom_elements |-> <<El_bad>>],
      footer |-> [custom_elements |-> <<El_note>>]]}

\* the configuration tree; a section with no key at all is absent from it
Section(name, sec) == IF sec = Empty THEN Empty ELSE name :> sec

Configs ==
    {Section("header", h @@ c.header) @@ Section("footer", f @@ c.footer) :
        h \in HeaderSections, f \in FooterSections, c \in CustomChoices}

Images == {[id |-> "img", size |-> <<800, 600>>], [id |-> "img", size |-> <<120, 80>>]}

Metrics == {[advance |-> 6, top |-> 2], [advance |-> 1, top |-> 0],
            [advance |-> 30, top |-> 2]}

\* render_all_text: the entry points in the order it calls them
Stages_footer_first == <<"header", "footer", "custom">>

Stages == <<"header", "custom", "footer">>

StageAfter(stage) ==
    LET k == CHOOSE i \in DOMAIN Stages : Stages[i] = stage
    IN  IF k < Len(Stages) THEN Stages[k + 1] ELSE "done"

Init ==
    /\ pc = Stages[1]
    /\ config \in Configs
    /\ img \in Images
    /\ bbox \in Metrics
    /\ drawn = <<>>
    /\ fontCalls = <<>>
    /\ ret = Idle
    /\ args = Idle /\ fs = Idle /\ idx = 0

\* the position of a run that an exception has left
RaisedIn == [header |-> "raised in render_header",
             custom |-> "raised in render_custom_elements",
             footer |-> "raised in render_footer"]

\* the effect of one entry point on the run
Run(stage, r) ==
    /\ pc = stage
    /\ drawn' = drawn \o r.log
    /\ fontCalls' = fontCalls \o r.fonts
    /\ IF r.raised
       THEN pc' = RaisedIn[stage] /\ ret' = ret
       ELSE pc' = StageAfter(stage) /\ ret' = img
    /\ UNCHANGED <<args, fs, idx, config, img, bbox>>

RenderHeader == Run("header", render_header(config, img.size, bbox))

RenderCustomElements == Run("custom", render_custom_elements(config, img.size, bbox))

RenderFooter == Run("footer", render_footer(config, img.size, bbox))

Next == RenderHeader \/ RenderCustomElements \/ RenderFooter

Spec == Init /\ [][Next]_vars

-----------------------------------------------------------------------------
(* Claims about the render entry points (under Spec).                        *)

CallsOn(draw) == SelectSeq(drawn, LAMBDA c : c.draw = draw)
CallsBy(by) == SelectSeq(drawn, LAMBDA c : c.draw.by = by)

HeaderDraw == [by |-> "header", n |-> 0]
FooterDraw == [by |-> "footer", n |-> 0]

Raising == {RaisedIn[st] : st \in DOMAIN RaisedIn}

HeaderRan == pc # "header"
CustomsRan == pc \in {"footer", "done", RaisedIn["footer"]}
FooterRan == pc \in {"done", RaisedIn["footer"]}

EffectsOff(c) ==
    /\ ~Get(c, "background_enabled", FALSE)
    /\ ~Get(c, "text_shadow", FALSE)
    /\ ~Get(c, "text_outline", FALSE)
    /\ ~Get(c, "show_time", FALSE)

\* the single plain draw of an element: its text, in its colour, at the
\* clamped anchor position (with the manual offset)
PlainDraw(draw, c, text, font, position, offset) ==
    LET bb == getbbox(bbox, text, font)
        a == _get_text_position(TextWidth(bb), TextHeight(bb), position,
                                img.size[1], img.size[2], DefaultPadding)
    IN  [draw |-> draw, line |-> 244, op |-> "text",
         xy |-> _check_text_bounds(a[1] + offset[1], a[2] + offset[2],
                                   TextWidth(bb), TextHeight(bb),
                                   img.size[1], img.size[2], DefaultPadding),
         text |-> text, fill |-> Get(c, "color", C_black), font |-> font]

HeaderPlain ==
    LET c == Get(config, "header", Empty)
    IN  PlainDraw(HeaderDraw, c, Get(c, "text", "XShot Screenshot"),
                  [family |-> Get(c, "font_family", "sans"),
                   size |-> Get(c, "size", DefaultHeaderSize),
                   style |-> Get(c, "font_style", "normal")],
                  Get(c, "position", S_top), <<0, 0>>)

FooterPlain ==
    LET c == Get(config, "footer", Empty)
    IN  PlainDraw(FooterDraw, c, Get(c, "text", "Shot by XShot"),
                  [family |-> Get(c, "font_family", "mono"),
                   size |-> Get(c, "size", DefaultFooterSize),
                   style |-> Get(c, "font_style", "normal")],
                  Get(c, "position", S_bottom), <<0, 0>>)

CustomPlain(n) ==
    LET c == CustomElements(config)[n]
    IN  PlainDraw([by |-> "custom", n |-> n], c, Get(c, "text", "Custom Text"),
                  [family |-> Get(c, "font_family", "mono"),
                   size |-> Get(c, "size", DefaultCustomSize),
                   style |-> Get(c, "font_style", "normal")],
                  Get(c, "position", S_center), Get(c, "offset", <<0, 0>>))

\* C4: with background, shadow, outline and show_time off or absent, an
\* enabled header, footer or custom element issues exactly one draw call: the
\* plain text draw of its text in its colour at the clamped anchor position
\* (anchor plus manual offset for a custom element).
C4_PlainIsOneDraw ==
    /\ (HeaderEnabled(config) /\ EffectsOff(config["header"]) /\ HeaderRan)
          => CallsBy("header") = <<HeaderPlain>>
    /\ (FooterEnabled(config) /\ EffectsOff(config["footer"]))
          => /\ CallsBy("footer") \in {<<>>, <<FooterPlain>>}
             /\ FooterRan => CallsBy("footer") = <<FooterPlain>>
    /\ \A n \in DOMAIN CustomElements(config) :
          LET c == CustomElements(config)[n]
          IN  (Get(c, "enabled", TRUE) /\ EffectsOff(c))
                 => /\ CallsOn([by |-> "custom", n |-> n]) \in {<<>>, <<CustomPlain(n)>>}
                    /\ CustomsRan => CallsOn([by |-> "custom", n |-> n]) = <<CustomPlain(n)>>

C4_Witness ==
    /\ pc = "done"
    /\ HeaderEnabled(config) /\ EffectsOff(config["header"])
    /\ "color" \in DOMAIN config["header"]
    /\ FooterEnabled(config) /\ EffectsOff(config["footer"])
    /\ Len(CustomElements(config)) = 3
    /\ Len(drawn) = 4
    /\ drawn[1] = HeaderPlain
    /\ drawn[3] = CustomPlain(3)
    /\ drawn[3].xy # _get_text_position(TextWidth(getbbox(bbox, "Note", drawn[3].font)),
                                        TextHeight(getbbox(bbox, "Note", drawn[3].font)),
                                        S_top_left, img.size[1], img.size[2],
                                        DefaultPadding)
    /\ drawn[4] = FooterPlain

\* C5: with header.enabled false or absent (or no header section at all)
\* render_header issues no draw call, loads no font and returns the image
\* handle it was given.
C5_DisabledHeaderUntouched ==
    (~Get(Get(config, "header", Empty), "enabled", FALSE) /\ HeaderRan)
        => /\ CallsBy("header") = <<>>
           /\ \A i \in DOMAIN fontCalls : fontCalls[i].draw.by # "header"
           /\ pc = "custom" => (ret = img /\ drawn = <<>> /\ fontCalls = <<>>)

C5_Witness ==
    /\ pc = "custom"
    /\ "header" \in DOMAIN config
    /\ "text" \in DOMAIN config["header"]
    /\ config["header"].enabled = FALSE
    /\ ret = img /\ drawn = <<>> /\ fontCalls = <<>>

\* C7: rendering never raises to the caller for any configuration of an
\* enabled header, footer or custom element, malformed colour values
\* included.
C7_NeverRaises ==
    pc \notin Raising

\* C8: an enabled footer at "bottom-center" (or "bottom", which is also the
\* default) whose text fits within the padding of 20 has its main text drawn
\* at x = (width - text_width) div 2, y = height - text_height - 20: the
\* clamp leaves the anchor position as it is.
C8_FooterBottomCenter ==
    LET c == Get(config, "footer", Empty)
        text == Get(c, "text", "Shot by XShot")
        bb == getbbox(bbox, text, [size |-> Get(c, "size", DefaultFooterSize)])
        w == img.size[1]
        h == img.size[2]
        main == SelectSeq(drawn, LAMBDA d : d.draw = FooterDraw /\ d.line = 244
                                            /\ d.text = text)
    IN  (/\ FooterEnabled(config)
         /\ Get(c, "position", S_bottom) \in {S_bottom_center, S_bottom}
         /\ TextWidth(bb) + 40 <= w /\ TextHeight(bb) + 40 <= h)
        => /\ \A i \in DOMAIN main :
                main[i].xy = <<(w - TextWidth(bb)) \div 2, h - TextHeight(bb) - 20>>
           /\ pc = "done" => Len(main) = 1

C8_Witness ==
    /\ pc = "done"
    /\ img.size = <<800, 600>>
    /\ FooterEnabled(config)
    /\ Get(config["footer"], "position", Empty) = S_bottom_center
    /\ "text" \notin DOMAIN config["footer"]
    /\ \E i \in DOMAIN drawn :
          /\ drawn[i].draw = FooterDraw /\ drawn[i].line = 244
          /\ drawn[i].text = "Shot by XShot"
          /\ drawn[i].xy = <<(800 - 156) \div 2, 600 - 16 - 20>>

\* C10: every draw call of the header precedes every draw call of every
\* custom element, and every draw call of a custom element precedes every
\* draw call of the footer.
StageRank(by) == CASE by = "header" -> 1 [] by = "custom" -> 2 [] OTHER -> 3

C10_HeaderCustomFooter ==
    \A i, j \in DOMAIN drawn :
        i < j => StageRank(drawn[i].draw.by) <= StageRank(drawn[j].draw.by)

C10_Witness ==
    /\ pc = "done"
    /\ Len(CallsBy("header")) >= 2
    /\ Len(CallsOn([by |-> "custom", n |-> 1])) >= 1
    /\ Len(CallsOn([by |-> "custom", n |-> 3])) >= 1
    /\ Len(CallsBy("footer")) >= 2
    /\ "custom_elements" \in DOMAIN config["header"]
    /\ "custom_elements" \in DOMAIN config["footer"]
    /\ config["header"].custom_elements # <<>>
    /\ config["footer"].custom_elements # <<>>

-----------------------------------------------------------------------------
(* Claims about the timestamps of render_header and render_footer (Spec).    *)

HeaderTimeText ==
    strftime(Get(Get(config, "header", Empty), "time_format", DefaultTimeFormat))
FooterTimeText ==
    strftime(Get(Get(config, "footer", Empty), "time_format", DefaultTimeFormat))

HeaderTimeFont ==
    LET c == Get(config, "header", Empty)
    IN  [family |-> Get(c, "font_family", "sans"),
         size |-> Get(c, "time_size", DefaultHeaderTimeSize),
         style |-> Get(c, "font_style", "normal")]

FooterTimeFont ==
    LET c == Get(config, "footer", Empty)
    IN  [family |-> Get(c, "font_family", "mono"),
         size |-> Get(c, "time_size", DefaultFooterTimeSize),
         style |-> Get(c, "font_style", "normal")]

\* the clamped place of a timestamp whose y before clamping is time_y and
\* whose x is the anchor position of the timestamp text
TimeXY(time_text, time_font, position, time_y) ==
    LET tb == getbbox(bbox, time_text, time_font)
        a == _get_text_position(TextWidth(tb), TextHeight(tb), position,
                                img.size[1], img.size[2], DefaultPadding)
    IN  _check_text_bounds(a[1], time_y, TextWidth(tb), TextHeight(tb),
                           img.size[1], img.size[2], DefaultPadding)

\* header: below the main text by the main font size + 5 when the position
\* string contains "top", else above it by above_by + 5
HeaderTimeXY(above_by) ==
    LET c == Get(config, "header", Empty)
        position == Get(c, "position", S_top)
        y == HeaderPlain.xy[2]
    IN  TimeXY(HeaderTimeText, HeaderTimeFont, position,
               IF Contains(S_top, position)
               THEN y + Get(c, "size", DefaultHeaderSize) + 5
               ELSE y - above_by - 5)

\* footer: above the main text by above_by + 5 when the position string
\* contains "bottom", else below it by the main font size + 5
FooterTimeXY(above_by) ==
    LET c == Get(config, "footer", Empty)
        position == Get(c, "position", S_bottom)
        y == FooterPlain.xy[2]
    IN  TimeXY(FooterTimeText, FooterTimeFont, position,
               IF Contains(S_bottom, position)
               THEN y - above_by - 5
               ELSE y + Get(c, "size", DefaultFooterSize) + 5)

\* the calls on `draw` that draw `text`: their source lines and colours
Look(draw, text) ==
    LET calls == SelectSeq(drawn, LAMBDA d : d.draw = draw /\ d.text = text)
    IN  [i \in DOMAIN calls |-> <<calls[i].line, calls[i].fill>>]

\* the timestamp of one element: its primary draw is at xy with the
\* timestamp font and the element's colour, every draw of it follows every
\* draw of the main text, and an entry point that returned drew it once,
\* with the effects of the main text
TimestampPlaced(draw, c, main_text, time_text, time_font, xy, returned) ==
    /\ \A i \in DOMAIN drawn :
          (drawn[i].draw = draw /\ drawn[i].text = time_text)
             => /\ drawn[i].font = time_font
                /\ drawn[i].line = 244
                      => drawn[i].xy = xy /\ drawn[i].fill = Get(c, "color", C_black)
                /\ \E j \in 1..(i - 1) : drawn[j].draw = draw /\ drawn[j].text = main_text
                /\ \A j \in DOMAIN drawn :
                      (drawn[j].draw = draw /\ drawn[j].text = main_text) => j < i
    /\ returned
          => /\ Look(draw, time_text) = Look(draw, main_text)
             /\ Len(SelectSeq(drawn, LAMBDA d : d.draw = draw /\ d.text = time_text
                                                /\ d.line = 244)) = 1

HeaderReturned == pc \notin {"header", RaisedIn["header"]}
FooterReturned == pc = "done"

TimestampsPlaced(header_above_by, footer_above_by) ==
    /\ (HeaderEnabled(config) /\ Get(config["header"], "show_time", FALSE))
          => TimestampPlaced(HeaderDraw, config["header"], HeaderPlain.text,
                             HeaderTimeText, HeaderTimeFont,
                             HeaderTimeXY(header_above_by), HeaderReturned)
    /\ (FooterEnabled(config) /\ Get(config["footer"], "show_time", FALSE))
          => TimestampPlaced(FooterDraw, config["footer"], FooterPlain.text,
                             FooterTimeText, FooterTimeFont,
                             FooterTimeXY(footer_above_by), FooterReturned)

\* C11 as stated: the timestamp's x is the anchor x of the timestamp text and
\* its y before clamping is the main text's clamped y offset by THE font
\* size (the element's "size") plus 5, below or above according to the
\* anchor; it is then clamped and drawn after the main text with the same
\* effect configuration.
C11_OffsetByFontSize ==
    TimestampsPlaced(Get(Get(config, "header", Empty), "size", DefaultHeaderSize),
                     Get(Get(config, "footer", Empty), "size", DefaultFooterSize))

\* C11 amended: a timestamp placed below the main text is offset by the main
\* font size + 5, a timestamp placed above it by the timestamp's own font
\* size (time_size) + 5; the direction is decided on the position string as
\* configured (header: below iff it contains "top"; footer: above iff it
\* contains "bottom").
C11_OffsetBySizeOrTimeSize ==
    TimestampsPlaced(HeaderTimeFont.size, FooterTimeFont.size)

C11_Witness ==
    /\ pc = "done"
    /\ img.size = <<800, 600>>
    /\ HeaderEnabled(config) /\ Get(config["header"], "show_time", FALSE)
    /\ Get(config["header"], "position", S_top) = S_bottom_right
    /\ FooterEnabled(config) /\ Get(config["footer"], "show_time", FALSE)
    /\ Get(config["footer"], "position", S_bottom) = S_top_right
    /\ \E i, j \in DOMAIN drawn :
          /\ i < j
          /\ drawn[i] = HeaderPlain
          /\ drawn[j].draw = HeaderDraw /\ drawn[j].text = HeaderTimeText
          /\ drawn[j].line = 244
          /\ drawn[j].xy[2] = drawn[i].xy[2] - DefaultHeaderTimeSize - 5
    /\ \E i, j \in DOMAIN drawn :
          /\ i < j
          /\ drawn[i] = FooterPlain
          /\ drawn[j].draw = FooterDraw /\ drawn[j].text = FooterTimeText
          /\ drawn[j].line = 244
          /\ drawn[j].xy[2] = drawn[i].xy[2] + 12 + 5

=============================================================================
